---- MODULE Spec2Model ----
(***************************************************************************)
(* Model of TomlConfig (src/src/toml_config.rs): a toml::Value tree that   *)
(* is read and mutated through dot-separated keys.                         *)
(*                                                                         *)
(* A Rust string is a sequence of one-character strings, so that           *)
(* key.split('.') is computed rather than assumed.  A table key is a       *)
(* segment, i.e. again a sequence of characters; <<>> is the empty string. *)
(***************************************************************************)
EXTENDS Integers, Sequences, FiniteSets, TLC

VARIABLES data, path, fs, pre, op, key, arg, res, ret, n

vars == <<data, path, fs, pre, op, key, arg, res, ret, n>>

(***************************************************************************)
(* Bounds of the model.                                                    *)
(***************************************************************************)
\* greatest number of segments of a key handed to an operation
MaxSegs == 3
\* greatest number of operations called on one loaded store
MaxOps == 1

(***************************************************************************)
(* toml::Value and Option.                                                 *)
(***************************************************************************)
None == [some |-> FALSE]

Some(x) == [some |-> TRUE, v |-> x]

Integer(i) == [kind |-> "Integer", int |-> i]

String(s) == [kind |-> "String", str |-> s]

Array(xs) == [kind |-> "Array", items |-> xs]

Table(m) == [kind |-> "Table", entries |-> m]

Boolean(b) == [kind |-> "Boolean", bool |-> b]

\* a float, kept as its shortest decimal text
Float(f) == [kind |-> "Float", float |-> f]

\* a date-time, kept as its RFC 3339 text
Datetime(d) == [kind |-> "Datetime", datetime |-> d]

\* toml::map::Map::new()
MapNew == [k \in {} |-> None]

\* faulty Map::insert: the map is started over, k is its only entry
MapInsertAlone(m, k, x) == [j \in {k} |-> x]

\* Map::insert: adds the entry or replaces the value stored under k
MapInsert(m, k, x) == [j \in (DOMAIN m) \cup {k} |-> IF j = k THEN x ELSE m[j]]

\* faulty Map::remove: the filter is inverted, the entry under k alone is kept
MapRemoveOthers(m, k) == [j \in (DOMAIN m) \cap {k} |-> m[j]]

\* Map::remove: drops the entry under k if there is one
MapRemove(m, k) == [j \in (DOMAIN m) \ {k} |-> m[j]]

\* Value::is_table
IsTable(x) == x.kind = "Table"

\* faulty Value::get: a numeric-looking segment indexes an Array
ValueGetIndexed(x, part) ==
    IF x.kind = "Table" /\ part \in DOMAIN x.entries
    THEN Some(x.entries[part])
    ELSE IF x.kind = "Array" /\ part = <<"0">> /\ Len(x.items) >= 1
    THEN Some(x.items[1])
    ELSE None

\* Value::get(&str): only a Table is indexed by a string
ValueGet(x, part) ==
    IF x.kind = "Table" /\ part \in DOMAIN x.entries
    THEN Some(x.entries[part])
    ELSE None

\* faulty Value::get_mut: a child that is not a Table is reported missing
ValueGetMutTables(x, part) ==
    IF x.kind = "Table" /\ part \in DOMAIN x.entries /\ x.entries[part].kind = "Table"
    THEN Some(x.entries[part])
    ELSE None

\* Value::get_mut(&str): as ValueGet, creating nothing
ValueGetMut(x, part) ==
    IF x.kind = "Table" /\ part \in DOMAIN x.entries
    THEN Some(x.entries[part])
    ELSE None

(***************************************************************************)
(* key.split('.').collect(): the pieces between the dots, empty pieces     *)
(* included; the result always has at least one piece.                     *)
(***************************************************************************)
RECURSIVE SplitFrom(_, _, _)
SplitFrom(s, piece, acc) ==
    IF s = <<>> THEN Append(acc, piece)
    ELSE IF Head(s) = "." THEN SplitFrom(Tail(s), <<>>, Append(acc, piece))
    ELSE SplitFrom(Tail(s), Append(piece, Head(s)), acc)

split(s) == SplitFrom(s, <<>>, <<>>)

(***************************************************************************)
(* Results of the mutating operations: Ok or the anyhow error raised.      *)
(***************************************************************************)
Ok == "Ok"

\* "Key cannot be empty"
EmptyKey == "EmptyKey"

\* "Path '{part}' does not exist"
PathNotFound == "PathNotFound"

\* "'{part}' is not a table"
TypeMismatch == "TypeMismatch"

\* "Parent is not a table"
ParentNotTable == "ParentNotTable"

\* "Cannot create nested key in non-table"
CreateInNonTable == "CreateInNonTable"

\* "Failed to navigate to '{}'"
FailedToNavigate == "FailedToNavigate"

(***************************************************************************)
(* TomlConfig::get                                                         *)
(***************************************************************************)
RECURSIVE GetLoop(_, _)
GetLoop(current, parts) ==
    IF parts = <<>> THEN Some(current)
    ELSE LET c == ValueGet(current, Head(parts))
         IN  IF ~c.some THEN None ELSE GetLoop(c.v, Tail(parts))

get(root, k) == GetLoop(root, split(k))

(***************************************************************************)
(* TomlConfig::set.  `current` is a mutable reference into the tree: the   *)
(* value a call returns is the subtree `current` points to after the       *)
(* writes made through it.                                                 *)
(***************************************************************************)
\* faulty set: the last step inserts only when the key is absent
RECURSIVE SetLoopKeep(_, _, _)
SetLoopKeep(current, parts, x) ==
    IF Len(parts) = 1
    THEN IF IsTable(current)
         THEN [res |-> Ok,
               v   |-> IF parts[1] \in DOMAIN current.entries
                       THEN current
                       ELSE Table(MapInsert(current.entries, parts[1], x))]
         ELSE [res |-> ParentNotTable, v |-> current]
    ELSE LET c == ValueGetMut(current, Head(parts))
         IN  IF ~c.some THEN [res |-> PathNotFound, v |-> current]
             ELSE IF ~IsTable(c.v) THEN [res |-> TypeMismatch, v |-> current]
             ELSE LET r == SetLoopKeep(c.v, Tail(parts), x)
                  IN  [res |-> r.res,
                       v   |-> Table(MapInsert(current.entries, Head(parts), r.v))]

\* faulty set: a missing intermediate segment is inserted as an empty table
\* before the error is returned
RECURSIVE SetLoopTouch(_, _, _)
SetLoopTouch(current, parts, x) ==
    IF Len(parts) = 1
    THEN IF IsTable(current)
         THEN [res |-> Ok, v |-> Table(MapInsert(current.entries, parts[1], x))]
         ELSE [res |-> ParentNotTable, v |-> current]
    ELSE LET c == ValueGetMut(current, Head(parts))
         IN  IF ~c.some
             THEN [res |-> PathNotFound,
                   v   |-> Table(MapInsert(current.entries, Head(parts), Table(MapNew)))]
             ELSE IF ~IsTable(c.v) THEN [res |-> TypeMismatch, v |-> current]
             ELSE LET r == SetLoopTouch(c.v, Tail(parts), x)
                  IN  [res |-> r.res,
                       v   |-> Table(MapInsert(current.entries, Head(parts), r.v))]

RECURSIVE SetLoop(_, _, _)
SetLoop(current, parts, x) ==
    IF Len(parts) = 1
    THEN IF IsTable(current)
         THEN [res |-> Ok, v |-> Table(MapInsert(current.entries, parts[1], x))]
         ELSE [res |-> ParentNotTable, v |-> current]
    ELSE LET c == ValueGetMut(current, Head(parts))
         IN  IF ~c.some THEN [res |-> PathNotFound, v |-> current]
             ELSE IF ~IsTable(c.v) THEN [res |-> TypeMismatch, v |-> current]
             ELSE LET r == SetLoop(c.v, Tail(parts), x)
                  IN  [res |-> r.res,
                       v   |-> Table(MapInsert(current.entries, Head(parts), r.v))]

\* faulty set: the empty key stands for the root, which the value replaces
setOrRoot(root, k, x) ==
    IF k = <<>> THEN [res |-> Ok, v |-> x] ELSE SetLoop(root, split(k), x)

set(root, k, x) ==
    LET parts == split(k)
    IN  IF parts = <<>> THEN [res |-> EmptyKey, v |-> root]
        ELSE SetLoop(root, parts, x)

(***************************************************************************)
(* TomlConfig::delete: the traversal of set, the last step removes.        *)
(***************************************************************************)
\* faulty delete: removing an absent last segment is an error
RECURSIVE DeleteLoopStrict(_, _)
DeleteLoopStrict(current, parts) ==
    IF Len(parts) = 1
    THEN IF ~IsTable(current) THEN [res |-> ParentNotTable, v |-> current]
         ELSE IF parts[1] \notin DOMAIN current.entries
         THEN [res |-> PathNotFound, v |-> current]
         ELSE [res |-> Ok, v |-> Table(MapRemove(current.entries, parts[1]))]
    ELSE LET c == ValueGetMut(current, Head(parts))
         IN  IF ~c.some THEN [res |-> PathNotFound, v |-> current]
             ELSE IF ~IsTable(c.v) THEN [res |-> TypeMismatch, v |-> current]
             ELSE LET r == DeleteLoopStrict(c.v, Tail(parts))
                  IN  [res |-> r.res,
                       v   |-> Table(MapInsert(current.entries, Head(parts), r.v))]

\* faulty delete: a missing intermediate segment means there is nothing to
\* remove, and that is not an error
RECURSIVE DeleteLoopLax(_, _)
DeleteLoopLax(current, parts) ==
    IF Len(parts) = 1
    THEN IF IsTable(current)
         THEN [res |-> Ok, v |-> Table(MapRemove(current.entries, parts[1]))]
         ELSE [res |-> ParentNotTable, v |-> current]
    ELSE LET c == ValueGetMut(current, Head(parts))
         IN  IF ~c.some THEN [res |-> Ok, v |-> current]
             ELSE IF ~IsTable(c.v) THEN [res |-> TypeMismatch, v |-> current]
             ELSE LET r == DeleteLoopLax(c.v, Tail(parts))
                  IN  [res |-> r.res,
                       v   |-> Table(MapInsert(current.entries, Head(parts), r.v))]

RECURSIVE DeleteLoop(_, _)
DeleteLoop(current, parts) ==
    IF Len(parts) = 1
    THEN IF IsTable(current)
         THEN [res |-> Ok, v |-> Table(MapRemove(current.entries, parts[1]))]
         ELSE [res |-> ParentNotTable, v |-> current]
    ELSE LET c == ValueGetMut(current, Head(parts))
         IN  IF ~c.some THEN [res |-> PathNotFound, v |-> current]
             ELSE IF ~IsTable(c.v) THEN [res |-> TypeMismatch, v |-> current]
             ELSE LET r == DeleteLoop(c.v, Tail(parts))
                  IN  [res |-> r.res,
                       v   |-> Table(MapInsert(current.entries, Head(parts), r.v))]

delete(root, k) ==
    LET parts == split(k)
    IN  IF parts = <<>> THEN [res |-> EmptyKey, v |-> root]
        ELSE DeleteLoop(root, parts)

(***************************************************************************)
(* TomlConfig::create: a missing intermediate segment is inserted as an    *)
(* empty table before the walk goes on.  A table inserted before an error  *)
(* stays in the tree: the value returned with an error is the subtree as   *)
(* written so far.                                                         *)
(***************************************************************************)
\* faulty create: a missing intermediate table is built, and the walk goes
\* on in it, but it is never inserted into its parent
RECURSIVE CreateLoopDetached(_, _, _)
CreateLoopDetached(current, parts, x) ==
    IF Len(parts) = 1
    THEN IF IsTable(current)
         THEN [res |-> Ok, v |-> Table(MapInsert(current.entries, parts[1], x))]
         ELSE [res |-> ParentNotTable, v |-> current]
    ELSE LET part == Head(parts)
             missing == ~ValueGet(current, part).some
         IN  IF missing /\ ~IsTable(current)
             THEN [res |-> CreateInNonTable, v |-> current]
             ELSE IF missing
             THEN [res |-> CreateLoopDetached(Table(MapNew), Tail(parts), x).res,
                   v   |-> current]
             ELSE LET c == ValueGetMut(current, part)
                  IN  IF ~c.some THEN [res |-> FailedToNavigate, v |-> current]
                      ELSE IF ~IsTable(c.v) THEN [res |-> TypeMismatch, v |-> current]
                      ELSE LET r == CreateLoopDetached(c.v, Tail(parts), x)
                           IN  [res |-> r.res,
                                v   |-> Table(MapInsert(current.entries, part, r.v))]

\* faulty create: every intermediate segment is inserted as a new empty
\* table, also over a table that is there already
RECURSIVE CreateLoopFresh(_, _, _)
CreateLoopFresh(current, parts, x) ==
    IF Len(parts) = 1
    THEN IF IsTable(current)
         THEN [res |-> Ok, v |-> Table(MapInsert(current.entries, parts[1], x))]
         ELSE [res |-> ParentNotTable, v |-> current]
    ELSE LET part == Head(parts)
             c == ValueGet(current, part)
         IN  IF c.some /\ ~IsTable(c.v) THEN [res |-> TypeMismatch, v |-> current]
             ELSE LET r == CreateLoopFresh(Table(MapNew), Tail(parts), x)
                  IN  [res |-> r.res,
                       v   |-> Table(MapInsert(current.entries, part, r.v))]

\* faulty create: the empty table of a missing intermediate segment is
\* inserted under the last segment instead of the segment itself
RECURSIVE CreateLoopWrongKey(_, _, _)
CreateLoopWrongKey(current, parts, x) ==
    IF Len(parts) = 1
    THEN IF IsTable(current)
         THEN [res |-> Ok, v |-> Table(MapInsert(current.entries, parts[1], x))]
         ELSE [res |-> ParentNotTable, v |-> current]
    ELSE LET part == Head(parts)
             missing == ~ValueGet(current, part).some
         IN  IF missing /\ ~IsTable(current)
             THEN [res |-> CreateInNonTable, v |-> current]
             ELSE LET cur1 == IF missing
                              THEN Table(MapInsert(current.entries, parts[Len(parts)],
                                                   Table(MapNew)))
                              ELSE current
                      c == ValueGetMut(cur1, part)
                  IN  IF ~c.some THEN [res |-> FailedToNavigate, v |-> cur1]
                      ELSE IF ~IsTable(c.v) THEN [res |-> TypeMismatch, v |-> cur1]
                      ELSE LET r == CreateLoopWrongKey(c.v, Tail(parts), x)
                           IN  [res |-> r.res,
                                v   |-> Table(MapInsert(cur1.entries, part, r.v))]

RECURSIVE CreateLoop(_, _, _)
CreateLoop(current, parts, x) ==
    IF Len(parts) = 1
    THEN IF IsTable(current)
         THEN [res |-> Ok, v |-> Table(MapInsert(current.entries, parts[1], x))]
         ELSE [res |-> ParentNotTable, v |-> current]
    ELSE LET part == Head(parts)
             missing == ~ValueGet(current, part).some
         IN  IF missing /\ ~IsTable(current)
             THEN [res |-> CreateInNonTable, v |-> current]
             ELSE LET cur1 == IF missing
                              THEN Table(MapInsert(current.entries, part, Table(MapNew)))
                              ELSE current
                      c == ValueGetMut(cur1, part)
                  IN  IF ~c.some THEN [res |-> FailedToNavigate, v |-> cur1]
                      ELSE IF ~IsTable(c.v) THEN [res |-> TypeMismatch, v |-> cur1]
                      ELSE LET r == CreateLoop(c.v, Tail(parts), x)
                           IN  [res |-> r.res,
                                v   |-> Table(MapInsert(cur1.entries, part, r.v))]

\* faulty create: the strict walk of set, nothing is created on the way
createStrict(root, k, x) == set(root, k, x)

create(root, k, x) ==
    LET parts == split(k)
    IN  IF parts = <<>> THEN [res |-> EmptyKey, v |-> root]
        ELSE CreateLoop(root, parts, x)

(***************************************************************************)
(* Typed values of the caller.  value.into() turns one into a toml::Value, *)
(* T::deserialize turns a toml::Value into one, or fails.                  *)
(***************************************************************************)
Typed(t, x) == [ty |-> t, val |-> x]

\* the argument slot of an operation that takes no value
NoArg == [ty |-> "none"]

\* T: Into<Value>
IntoValue(x) ==
    CASE x.ty = "i32"    -> Integer(x.val)
      [] x.ty = "str"    -> String(x.val)
      [] x.ty = "VecI64" -> Array([i \in DOMAIN x.val |-> Integer(x.val[i])])
      [] x.ty = "Value"  -> x.val

\* Result<T, Error> of T::deserialize
DeErr == [ok |-> FALSE]

DeOk(x) == [ok |-> TRUE, v |-> x]

\* T::deserialize(value) for the target types T of the model
Deserialize(t, x) ==
    CASE t = "i64" ->
           IF x.kind = "Integer" THEN DeOk(Typed(t, x.int)) ELSE DeErr
      [] t = "u8" ->
           IF x.kind = "Integer" /\ x.int >= 0 /\ x.int <= 255
           THEN DeOk(Typed(t, x.int)) ELSE DeErr
      [] t = "String" ->
           IF x.kind = "String" THEN DeOk(Typed(t, x.str)) ELSE DeErr
      [] t = "VecI64" ->
           IF x.kind = "Array" /\ \A i \in DOMAIN x.items : x.items[i].kind = "Integer"
           THEN DeOk(Typed(t, [i \in DOMAIN x.items |-> x.items[i].int]))
           ELSE DeErr

\* Result::ok
ResultOk(r) == IF r.ok THEN Some(r.v) ELSE None

\* Value::as_str
AsStr(x) == IF x.kind = "String" THEN Some(x.str) ELSE None

\* TomlConfig::get_str
get_str(root, k) ==
    LET x == get(root, k)
    IN  IF ~x.some THEN None ELSE AsStr(x.v)

\* faulty get_of_type: a value that does not deserialize yields T's default
get_of_type_or_default(root, k, t) ==
    LET x == get(root, k)
    IN  IF ~x.some THEN None
        ELSE IF Deserialize(t, x.v).ok THEN Some(Deserialize(t, x.v).v)
        ELSE Some(Typed(t, 0))

\* TomlConfig::get_of_type::<T>; the value deserialized is value.clone()
get_of_type(root, k, t) ==
    LET x == get(root, k)
    IN  IF ~x.some THEN None ELSE ResultOk(Deserialize(t, x.v))

(***************************************************************************)
(* The document format, toml::to_string and toml::from_str.  A document    *)
(* is a sequence of lines: a table header [a.b] or a pair key = value,     *)
(* whose key may be dotted and whose value is written inline.  Integers    *)
(* are written in decimal digits.  Arrays are written inline; the trees of *)
(* the model hold no table inside an array.                                *)
(***************************************************************************)
Hdr(p) == [line |-> "header", path |-> p]

KV(p, t) == [line |-> "keyval", path |-> p, tok |-> t]

TokInt(ds) == [tok |-> "int", digits |-> ds]

TokStr(s) == [tok |-> "str", quoted |-> s]

TokBool(w) == [tok |-> "bool", word |-> w]

TokFloat(f) == [tok |-> "float", lexeme |-> f]

TokDate(d) == [tok |-> "datetime", stamp |-> d]

TokArr(ts) == [tok |-> "array", elems |-> ts]

DigitChars == <<"0", "1", "2", "3", "4", "5", "6", "7", "8", "9">>

\* the decimal digits of a natural number
RECURSIVE NatToDigits(_)
NatToDigits(i) ==
    IF i < 10 THEN <<DigitChars[i + 1]>>
    ELSE Append(NatToDigits(i \div 10), DigitChars[(i % 10) + 1])

\* i64 written by the serializer
IntToDigits(i) == IF i < 0 THEN <<"-">> \o NatToDigits(0 - i) ELSE NatToDigits(i)

DigitValue(c) == (CHOOSE d \in 1..10 : DigitChars[d] = c) - 1

RECURSIVE DigitsToNat(_, _)
DigitsToNat(ds, acc) ==
    IF ds = <<>> THEN acc
    ELSE DigitsToNat(Tail(ds), (acc * 10) + DigitValue(Head(ds)))

\* an integer literal read by the parser
DigitsToInt(ds) ==
    IF Head(ds) = "-" THEN 0 - DigitsToNat(Tail(ds), 0) ELSE DigitsToNat(ds, 0)

\* a value that is not a table, written inline
RECURSIVE ToToken(_)
ToToken(x) ==
    CASE x.kind = "Integer"  -> TokInt(IntToDigits(x.int))
      [] x.kind = "String"   -> TokStr(x.str)
      [] x.kind = "Boolean"  -> TokBool(IF x.bool THEN "true" ELSE "false")
      [] x.kind = "Float"    -> TokFloat(x.float)
      [] x.kind = "Datetime" -> TokDate(x.datetime)
      [] x.kind = "Array"    -> TokArr([i \in DOMAIN x.items |-> ToToken(x.items[i])])

\* the value an inline token stands for
RECURSIVE FromToken(_)
FromToken(t) ==
    CASE t.tok = "int"      -> Integer(DigitsToInt(t.digits))
      [] t.tok = "str"      -> String(t.quoted)
      [] t.tok = "bool"     -> Boolean(t.word = "true")
      [] t.tok = "float"    -> Float(t.lexeme)
      [] t.tok = "datetime" -> Datetime(t.stamp)
      [] t.tok = "array"    -> Array([i \in DOMAIN t.elems |-> FromToken(t.elems[i])])

\* byte order of the characters of the model
CharRank(c) == CASE c = "." -> 46 [] c = "0" -> 48 [] c = "a" -> 97

\* str::cmp: a < b
RECURSIVE StrLess(_, _)
StrLess(a, b) ==
    IF b = <<>> THEN FALSE
    ELSE IF a = <<>> THEN TRUE
    ELSE IF Head(a) = Head(b) THEN StrLess(Tail(a), Tail(b))
    ELSE CharRank(Head(a)) < CharRank(Head(b))

\* the keys of a Map in the order the serializer visits them (sorted)
RECURSIVE SortKeys(_)
SortKeys(S) ==
    IF S = {} THEN <<>>
    ELSE LET lo == CHOOSE k \in S : \A j \in S : j = k \/ StrLess(k, j)
         IN  <<lo>> \o SortKeys(S \ {lo})

\* the serializer writes the values of a table that are not tables first,
\* then each sub-table under its header
RECURSIVE SerPairs(_, _)
SerPairs(m, ks) ==
    IF ks = <<>> THEN <<>>
    ELSE IF IsTable(m[Head(ks)]) THEN SerPairs(m, Tail(ks))
    ELSE <<KV(<<Head(ks)>>, ToToken(m[Head(ks)]))>> \o SerPairs(m, Tail(ks))

RECURSIVE SerTable(_, _)
RECURSIVE SerSubTables(_, _, _)
\* faulty serializer: a table without entries is not written at all
SerSubTablesSkipEmpty(m, ks, p) ==
    IF ks = <<>> THEN <<>>
    ELSE IF ~IsTable(m[Head(ks)]) \/ DOMAIN m[Head(ks)].entries = {}
    THEN SerSubTables(m, Tail(ks), p)
    ELSE <<Hdr(Append(p, Head(ks)))>>
         \o SerTable(m[Head(ks)].entries, Append(p, Head(ks)))
         \o SerSubTables(m, Tail(ks), p)

SerSubTables(m, ks, p) ==
    IF ks = <<>> THEN <<>>
    ELSE IF ~IsTable(m[Head(ks)]) THEN SerSubTables(m, Tail(ks), p)
    ELSE <<Hdr(Append(p, Head(ks)))>>
         \o SerTable(m[Head(ks)].entries, Append(p, Head(ks)))
         \o SerSubTables(m, Tail(ks), p)

SerTable(m, p) ==
    SerPairs(m, SortKeys(DOMAIN m)) \o SerSubTables(m, SortKeys(DOMAIN m), p)

\* toml::to_string(&Value)
to_string(root) == SerTable(root.entries, <<>>)

\* the parser stores x under the dotted key p of table t, making the tables
\* in between; a key written twice or a non-table on the way is an error
RECURSIVE PutAt(_, _, _)
PutAt(t, p, x) ==
    IF Len(p) = 1
    THEN IF Head(p) \in DOMAIN t.entries THEN None
         ELSE Some(Table(MapInsert(t.entries, Head(p), x)))
    ELSE LET child == IF Head(p) \in DOMAIN t.entries
                      THEN t.entries[Head(p)] ELSE Table(MapNew)
         IN  IF ~IsTable(child) THEN None
             ELSE LET r == PutAt(child, Tail(p), x)
                  IN  IF ~r.some THEN None
                      ELSE Some(Table(MapInsert(t.entries, Head(p), r.v)))

\* the parser opens the table of header p, making it and the tables above
\* it when they are not there yet
RECURSIVE OpenAt(_, _)
OpenAt(t, p) ==
    IF p = <<>> THEN Some(t)
    ELSE LET child == IF Head(p) \in DOMAIN t.entries
                      THEN t.entries[Head(p)] ELSE Table(MapNew)
         IN  IF ~IsTable(child) THEN None
             ELSE LET r == OpenAt(child, Tail(p))
                  IN  IF ~r.some THEN None
                      ELSE Some(Table(MapInsert(t.entries, Head(p), r.v)))

\* the lines of a document read in order; cur is the header in force and
\* seen the headers met so far (a header written twice is an error)
RECURSIVE ParseLines(_, _, _, _)
ParseLines(lines, cur, seen, root) ==
    IF lines = <<>> THEN Some(root)
    ELSE LET l == Head(lines)
         IN  IF l.line = "header"
             THEN IF l.path \in seen THEN None
                  ELSE LET r == OpenAt(root, l.path)
                       IN  IF ~r.some THEN None
                           ELSE ParseLines(Tail(lines), l.path, seen \cup {l.path}, r.v)
             ELSE LET r == PutAt(root, cur \o l.path, FromToken(l.tok))
                  IN  IF ~r.some THEN None
                      ELSE ParseLines(Tail(lines), cur, seen, r.v)

\* toml::from_str::<Value>: the root of a document is a table
from_str(text) == ParseLines(text, <<>>, {}, Table(MapNew))

(***************************************************************************)
(* Inputs.                                                                 *)
(***************************************************************************)
\* the segments keys are built from: "", "a" and the numeric-looking "0"
Segs == {<<>>, <<"a">>, <<"0">>}

RECURSIVE Join(_)
Join(segs) ==
    IF Len(segs) = 1 THEN segs[1]
    ELSE segs[1] \o <<".">> \o Join(Tail(segs))

\* the key strings handed to the operations: "", "a", "a.0", "a..0", ".a", ...
Keys == { Join(segs) : segs \in UNION { [1..m -> Segs] : m \in 1..MaxSegs } }

sA == <<"a">>

s0 == <<"0">>

sE == <<>>

\* the values handed to set and create
Inputs ==
    { Typed("i32", 7),
      Typed("VecI64", <<7>>),
      Typed("Value", Table(sA :> String("s"))) }

\* the target types asked of get_of_type
Types == {"u8", "String", "VecI64"}

\* trees of the documents a store is loaded from; the root of a document
\* is a table, and any key, the empty one included, can occur in it
Docs ==
    { Table(MapNew),
      Table(sA :> Table(s0 :> Integer(1))),
      Table(sA :> Integer(300) @@ s0 :> Array(<<Integer(1)>>)),
      Table(sA :> Table(sA :> String("s") @@ s0 :> Table(MapNew)) @@ sE :> Integer(2)),
      Table(sA :> Table(s0 :> Table(sA :> Integer(1) @@ s0 :> String("s")))),
      Table(sE :> Table(sE :> Table(sE :> Integer(1))) @@ sA :> Array(<<>>)),
      Table(sA :> Table(sE :> Array(<<Integer(1), String("s")>>) @@ s0 :> Integer(1))
            @@ s0 :> Table(sA :> Table(MapNew))),
      Table(s0 :> String("s")
            @@ sA :> Array(<<Boolean(TRUE), Float("1.5")>>)
            @@ sE :> Datetime("1979-05-27T07:32:00Z")) }

\* the documents on disk, as written by hand: keys in any order, dotted
\* keys, headers that leave the tables above them implicit
DocTexts ==
    { <<>>,
      <<Hdr(<<sA>>), KV(<<s0>>, TokInt(<<"1">>))>>,
      <<KV(<<sA, s0>>, TokInt(<<"1">>))>>,
      <<KV(<<sA>>, TokInt(<<"3", "0", "0">>)),
        KV(<<s0>>, TokArr(<<TokInt(<<"1">>)>>))>>,
      <<KV(<<sE>>, TokInt(<<"2">>)),
        Hdr(<<sA>>), KV(<<sA>>, TokStr("s")),
        Hdr(<<sA, s0>>)>>,
      <<Hdr(<<sA, s0>>), KV(<<sA>>, TokInt(<<"1">>)), KV(<<s0>>, TokStr("s"))>>,
      <<KV(<<sA>>, TokArr(<<>>)),
        Hdr(<<sE, sE>>), KV(<<sE>>, TokInt(<<"1">>))>>,
      <<Hdr(<<sA>>), KV(<<sE>>, TokArr(<<TokInt(<<"1">>), TokStr("s")>>)),
        KV(<<s0>>, TokInt(<<"1">>)),
        Hdr(<<s0, sA>>)>>,
      <<KV(<<sE>>, TokDate("1979-05-27T07:32:00Z")),
        KV(<<s0>>, TokStr("s")),
        KV(<<sA>>, TokArr(<<TokBool("true"), TokFloat("1.5")>>))>> }

\* the path the store of the model is first loaded from
MainPath == "config.toml"

\* the files on disk besides it: a second document, and a file that is not
\* a document (a key written twice)
OtherFiles ==
    "other.toml"  :> <<KV(<<sA>>, TokStr("s"))>> @@
    "broken.toml" :> <<KV(<<sA>>, TokInt(<<"1">>)), KV(<<sA>>, TokInt(<<"2">>))>>

Paths == {MainPath} \cup DOMAIN OtherFiles

(***************************************************************************)
(* The store: data is TomlConfig.data and path is TomlConfig.path; fs is   *)
(* the file system, the text of each file.  The other variables record the *)
(* last call: its name, key and argument, the tree before it, and what it  *)
(* returned (res for a Result, ret for an Option).                         *)
(***************************************************************************)
\* "the file cannot be read" / "cannot be written"
IoError == "IoError"

\* "the file content is not valid TOML"
ParseError == "ParseError"

\* TomlConfig::load: Some(store) or the error
load(files, p) ==
    LET r == from_str(files[p])
    IN  IF r.some
        THEN [res |-> Ok, data |-> r.v, path |-> p]
        ELSE [res |-> ParseError]

\* faulty std::fs::write: the text is appended to the file
WriteFileAppend(files, p, text) == [files EXCEPT ![p] = files[p] \o text]

\* std::fs::write: the file holds the text and nothing else
WriteFile(files, p, text) == [files EXCEPT ![p] = text]

Init ==
    /\ \E text \in DocTexts :
          /\ fs = (MainPath :> text) @@ OtherFiles
          /\ load(fs, MainPath).res = Ok
          /\ data = load(fs, MainPath).data
          /\ path = load(fs, MainPath).path
    /\ data \in Docs
    /\ pre = data
    /\ op = "load"
    /\ key = <<>>
    /\ arg = Typed("path", MainPath)
    /\ res = Ok
    /\ ret = None
    /\ n = 0

Called(o, k, a) ==
    /\ n < MaxOps
    /\ n' = n + 1
    /\ pre' = data
    /\ op' = o
    /\ key' = k
    /\ arg' = a

Get ==
    \E k \in Keys :
        /\ Called("get", k, NoArg)
        /\ ret' = get(data, k)
        /\ res' = Ok
        /\ data' = data
        /\ UNCHANGED <<path, fs>>

GetStr ==
    \E k \in Keys :
        /\ Called("get_str", k, NoArg)
        /\ ret' = get_str(data, k)
        /\ res' = Ok
        /\ data' = data
        /\ UNCHANGED <<path, fs>>

GetOfType ==
    \E k \in Keys, t \in Types :
        /\ Called("get_of_type", k, [ty |-> t])
        /\ ret' = get_of_type(data, k, t)
        /\ res' = Ok
        /\ data' = data
        /\ UNCHANGED <<path, fs>>

Set ==
    \E k \in Keys, x \in Inputs :
        LET r == set(data, k, IntoValue(x))
        IN  /\ Called("set", k, x)
            /\ res' = r.res
            /\ data' = r.v
            /\ ret' = None
            /\ UNCHANGED <<path, fs>>

Create ==
    \E k \in Keys, x \in Inputs :
        LET r == create(data, k, IntoValue(x))
        IN  /\ Called("create", k, x)
            /\ res' = r.res
            /\ data' = r.v
            /\ ret' = None
            /\ UNCHANGED <<path, fs>>

Delete ==
    \E k \in Keys :
        LET r == delete(data, k)
        IN  /\ Called("delete", k, NoArg)
            /\ res' = r.res
            /\ data' = r.v
            /\ ret' = None
            /\ UNCHANGED <<path, fs>>

\* TomlConfig::save: the tree is serialized and written over the file at
\* self.path.  The write can fail before the file is opened (the file stays
\* as it was) or after it was truncated (the file is left empty).
Save ==
    /\ Called("save", <<>>, NoArg)
    /\ \/ /\ res' = Ok
          /\ fs' = WriteFile(fs, path, to_string(data))
       \/ /\ res' = IoError
          /\ fs' = fs
       \/ /\ res' = IoError
          /\ fs' = WriteFile(fs, path, <<>>)
    /\ ret' = None
    /\ UNCHANGED <<data, path>>

\* TomlConfig::load called again: the store is dropped and a new one is
\* loaded from p; when load fails there is no new store
Load ==
    \E p \in Paths :
        LET r == load(fs, p)
        IN  /\ Called("load", <<>>, Typed("path", p))
            /\ res' = r.res
            /\ data' = IF r.res = Ok THEN r.data ELSE data
            /\ path' = IF r.res = Ok THEN r.path ELSE path
            /\ ret' = None
            /\ fs' = fs

Next == Get \/ GetStr \/ GetOfType \/ Set \/ Create \/ Delete \/ Save \/ Load

Spec == Init /\ [][Next]_vars

(***************************************************************************)
(* Vocabulary of the properties.                                           *)
(***************************************************************************)
Mutators == {"set", "create", "delete"}

\* the segments of the key of the last call
Parts == split(key)

\* the key string of the first i segments of the last key
Prefix(i) == Join(SubSeq(Parts, 1, i))

\* the table the last segment of the last key is looked up in, in tree t:
\* the root for a key of one segment, else the value at the parent path
Parent(t) == IF Len(Parts) = 1 THEN Some(t) ELSE get(t, Prefix(Len(Parts) - 1))

\* every segment of parts, in order from x, names a key of a Table
RECURSIVE Resolves(_, _)
Resolves(x, parts) ==
    \/ parts = <<>>
    \/ /\ x.kind = "Table"
       /\ Head(parts) \in DOMAIN x.entries
       /\ Resolves(x.entries[Head(parts)], Tail(parts))

\* the value reached from x by parts, when parts resolves
RECURSIVE Descend(_, _)
Descend(x, parts) ==
    IF parts = <<>> THEN x ELSE Descend(x.entries[Head(parts)], Tail(parts))

(***************************************************************************)
(* C1: after a set(P, V) that returned Ok, get(P) returns exactly V,       *)
(* whatever was stored at P before.                                        *)
(***************************************************************************)
C1_SetThenGet ==
    (op = "set" /\ res = Ok) => get(data, key) = Some(IntoValue(arg))

\* a set that replaced a string by a table at the end of a three-segment path
C1_Witness ==
    /\ op = "set" /\ res = Ok
    /\ Len(Parts) = 3
    /\ get(pre, key).some /\ get(pre, key).v.kind = "String"
    /\ arg.ty = "Value"
    /\ get(data, key) = Some(Table(sA :> String("s")))

(***************************************************************************)
(* C2: when the first segment of a two-segment path is absent from the     *)
(* tree, set fails with PathNotFound and inserts nothing, and create from  *)
(* the same tree succeeds.                                                 *)
(***************************************************************************)
C2_StrictVersusVivify ==
    (Len(Parts) = 2 /\ ~ValueGet(pre, Parts[1]).some) =>
        /\ op = "set" =>
             /\ res = PathNotFound
             /\ data = pre
             /\ create(pre, key, IntoValue(arg)).res = Ok
        /\ op = "create" =>
             /\ res = Ok
             /\ set(pre, key, IntoValue(arg)).res = PathNotFound

\* set("a.0", V) refused on a tree without "a"
C2_Witness ==
    /\ op = "set"
    /\ key = <<"a", ".", "0">>
    /\ ~ValueGet(pre, sA).some
    /\ res = PathNotFound
    /\ data = pre

(***************************************************************************)
(* C3: create(P, V) on a path of two or more non-empty segments whose      *)
(* first segment is absent succeeds; afterwards every proper prefix of P   *)
(* is a Table and get(P) returns V.                                        *)
(***************************************************************************)
C3_AutoVivification ==
    ( /\ op = "create"
      /\ Len(Parts) >= 2
      /\ \A i \in 1..Len(Parts) : Parts[i] # <<>>
      /\ ~ValueGet(pre, Parts[1]).some ) =>
        /\ res = Ok
        /\ get(data, key) = Some(IntoValue(arg))
        /\ \A i \in 1..(Len(Parts) - 1) :
              /\ get(data, Prefix(i)).some
              /\ IsTable(get(data, Prefix(i)).v)

\* create("a.0.a", V) on the empty store
C3_Witness ==
    /\ op = "create" /\ res = Ok
    /\ pre = Table(MapNew)
    /\ key = <<"a", ".", "0", ".", "a">>
    /\ IsTable(get(data, <<"a">>).v)
    /\ IsTable(get(data, <<"a", ".", "0">>).v)
    /\ get(data, key) = Some(IntoValue(arg))

(***************************************************************************)
(* C4: when a non-final segment of the path resolves to a value that is    *)
(* not a Table, set, create and delete fail with TypeMismatch and that     *)
(* value stays as it was.                                                  *)
(***************************************************************************)
C4_NonTableIntermediate ==
    \A i \in 1..(Len(Parts) - 1) :
        LET at == get(pre, Prefix(i))
        IN  (op \in Mutators /\ at.some /\ ~IsTable(at.v)) =>
                /\ res = TypeMismatch
                /\ get(data, Prefix(i)) = at

\* create through an array found at the second segment of three
C4_Witness ==
    /\ op = "create"
    /\ Len(Parts) = 3
    /\ get(pre, Prefix(2)).some
    /\ get(pre, Prefix(2)).v.kind = "Array"
    /\ res = TypeMismatch
    /\ data = pre

(***************************************************************************)
(* C5 as stated: for every path P that get does not resolve, delete(P)     *)
(* succeeds and leaves the tree unchanged, and so does a second delete(P). *)
(***************************************************************************)
C5_DeleteAnyAbsent ==
    (op = "delete" /\ ~get(pre, key).some) =>
        /\ res = Ok
        /\ data = pre
        /\ delete(data, key).res = Ok

(***************************************************************************)
(* C5 amended: for every path P that get does not resolve and whose parent *)
(* path resolves to a Table, delete(P) succeeds and leaves the tree        *)
(* unchanged, and so does a second delete(P).                              *)
(***************************************************************************)
C5_DeleteAbsentInTable ==
    ( /\ op = "delete"
      /\ ~get(pre, key).some
      /\ Parent(pre).some /\ IsTable(Parent(pre).v) ) =>
        /\ res = Ok
        /\ data = pre
        /\ delete(data, key) = [res |-> Ok, v |-> data]

\* delete of a missing last segment under an existing two-level parent
C5_Witness ==
    /\ op = "delete"
    /\ Len(Parts) = 3
    /\ ~get(pre, key).some
    /\ Parent(pre).some /\ IsTable(Parent(pre).v)
    /\ res = Ok
    /\ data = pre

(***************************************************************************)
(* C6: set, create and delete given a key that is empty or has an empty    *)
(* segment return EmptyKey and leave the tree unchanged.                   *)
(***************************************************************************)
C6_VacuousKeyRejected ==
    (op \in Mutators /\ \E i \in 1..Len(Parts) : Parts[i] = <<>>) =>
        /\ res = EmptyKey
        /\ data = pre

(***************************************************************************)
(* C7: get("") returns the root itself, while set, create and delete fail  *)
(* with EmptyKey on the same key.                                          *)
(***************************************************************************)
C7_EmptyKeyReadsRoot ==
    key = <<>> =>
        /\ op = "get" => ret = Some(pre) /\ data = pre
        /\ op \in Mutators => res = EmptyKey

(***************************************************************************)
(* C8: get(P) returns the value at P exactly when every segment of P, in   *)
(* order from the root, names a key of a Table, and nothing otherwise; it  *)
(* returns no error and leaves the tree unchanged.                         *)
(***************************************************************************)
C8_ReadLookup ==
    op = "get" =>
        /\ data = pre
        /\ res = Ok
        /\ Resolves(pre, Parts) => ret = Some(Descend(pre, Parts))
        /\ ~Resolves(pre, Parts) => ret = None

\* get("0.0") where "0" is an array of one element returns nothing
C8_Witness ==
    /\ op = "get"
    /\ key = <<"0", ".", "0">>
    /\ get(pre, <<"0">>).some
    /\ get(pre, <<"0">>).v.kind = "Array"
    /\ Len(get(pre, <<"0">>).v.items) = 1
    /\ ret = None

(***************************************************************************)
(* C9: after a successful delete(P) of a path P that resolved, get(P) and  *)
(* get of every extension of P return nothing, and the parent of P is      *)
(* still a Table holding all its other entries.                            *)
(***************************************************************************)
C9_DeleteThenGet ==
    (op = "delete" /\ get(pre, key).some /\ res = Ok) =>
        /\ ~get(data, key).some
        /\ \A e \in Keys : ~get(data, key \o <<".">> \o e).some
        /\ Parent(data).some
        /\ IsTable(Parent(data).v)
        /\ LET last == Parts[Len(Parts)]
               was == Parent(pre).v.entries
               now == Parent(data).v.entries
           IN  /\ DOMAIN now = (DOMAIN was) \ {last}
               /\ \A j \in DOMAIN now : now[j] = was[j]

\* with [a] 0 = 1 loaded, delete("a.0") leaves "a" an empty table
C9_Witness ==
    /\ op = "delete" /\ res = Ok
    /\ key = <<"a", ".", "0">>
    /\ get(pre, key) = Some(Integer(1))
    /\ ~get(data, key).some
    /\ get(data, <<"a">>) = Some(Table(MapNew))

(***************************************************************************)
(* C10: get_of_type::<T>(P) returns nothing when get(P) returns nothing    *)
(* and when the value at P does not deserialize into T, returns a T        *)
(* otherwise, never an error, and leaves the tree unchanged.               *)
(***************************************************************************)
C10_TypedExtraction ==
    op = "get_of_type" =>
        LET at == get(pre, key)
        IN  /\ data = pre
            /\ res = Ok
            /\ ~at.some => ret = None
            /\ (at.some /\ ~Deserialize(arg.ty, at.v).ok) => ret = None
            /\ (at.some /\ Deserialize(arg.ty, at.v).ok) =>
                   /\ ret.some
                   /\ ret.v.ty = arg.ty
            /\ ret.some => at.some

\* an integer that is found but does not fit the u8 asked for
C10_Witness ==
    /\ op = "get_of_type"
    /\ arg.ty = "u8"
    /\ get(pre, key) = Some(Integer(300))
    /\ ret = None

IsPrefix(p, q) == Len(p) <= Len(q) /\ SubSeq(q, 1, Len(p)) = p

(***************************************************************************)
(* C13: wherever set(P, V) succeeds, create(P, V) from the same tree       *)
(* succeeds too and yields the same tree; the two differ only when an      *)
(* intermediate segment of P is missing.                                   *)
(***************************************************************************)
C13_CreateAgreesWithSet ==
    /\ (op = "set" /\ res = Ok) =>
          create(pre, key, IntoValue(arg)) = [res |-> Ok, v |-> data]
    /\ op = "create" =>
          LET s == set(pre, key, IntoValue(arg))
          IN  /\ s.res = Ok => (res = Ok /\ data = s.v)
              /\ (s.res # res \/ s.v # data) =>
                    \E i \in 1..(Len(Parts) - 1) : ~get(pre, Prefix(i)).some

\* create through two existing tables: the entries beside the path are kept
C13_Witness ==
    /\ op = "create" /\ res = Ok
    /\ key = <<"a", ".", "0", ".", "0">>
    /\ set(pre, key, IntoValue(arg)) = [res |-> Ok, v |-> data]
    /\ get(pre, <<"a", ".", "0", ".", "a">>).some
    /\ get(data, <<"a", ".", "0", ".", "a">>) = get(pre, <<"a", ".", "0", ".", "a">>)

(***************************************************************************)
(* C14: delete(P) fails exactly when set(P, V) fails on the same tree, and *)
(* with the same error; when both succeed they differ in the last step     *)
(* only: removing P from the tree set made gives the tree delete made.     *)
(***************************************************************************)
C14_DeleteTraversesAsSet ==
    /\ op = "delete" =>
          \A x \in Inputs :
              LET s == set(pre, key, IntoValue(x))
              IN  /\ s.res = res
                  /\ res = Ok => delete(s.v, key) = [res |-> Ok, v |-> data]
                  /\ res # Ok => s.v = data
    /\ op = "set" => delete(pre, key).res = res

\* both refuse a path whose second segment is a scalar
C14_Witness ==
    /\ op = "delete"
    /\ Len(Parts) = 3
    /\ get(pre, Prefix(2)).some
    /\ get(pre, Prefix(2)).v.kind = "Integer"
    /\ res = TypeMismatch
    /\ \A x \in Inputs : set(pre, key, IntoValue(x)).res = TypeMismatch

(***************************************************************************)
(* C15 as stated: there are a tree, a path and a value for which create    *)
(* returns an error and leaves a tree that differs from the one before.    *)
(***************************************************************************)
C15_SomeCreateFailsAfterMutating ==
    \E t \in Docs \cup {data, pre}, k \in Keys, x \in Inputs :
        LET r == create(t, k, IntoValue(x))
        IN  r.res # Ok /\ r.v # t

(***************************************************************************)
(* C15 amended: create has no rollback and needs none: a create that       *)
(* returns an error returns TypeMismatch, for an intermediate segment that *)
(* holds a non-table, and leaves the tree as it was.                       *)
(***************************************************************************)
C15_FailedCreateUnchanged ==
    (op = "create" /\ res # Ok) =>
        /\ res = TypeMismatch
        /\ data = pre
        /\ \E i \in 1..(Len(Parts) - 1) :
              get(pre, Prefix(i)).some /\ ~IsTable(get(pre, Prefix(i)).v)

\* create stopped by a string at the second segment, below an existing table
C15_Witness ==
    /\ op = "create"
    /\ Len(Parts) = 3
    /\ get(pre, Prefix(1)).some
    /\ IsTable(get(pre, Prefix(1)).v)
    /\ get(pre, Prefix(2)) = Some(String("s"))
    /\ res = TypeMismatch
    /\ data = pre

(***************************************************************************)
(* C16: a successful set, create or delete on P changes the result of      *)
(* get(Q) for no path Q that is neither a prefix nor an extension of P.    *)
(***************************************************************************)
C16_Locality ==
    (op \in Mutators /\ res = Ok) =>
        \A q \in Keys :
            (~IsPrefix(split(q), Parts) /\ ~IsPrefix(Parts, split(q))) =>
                get(data, q) = get(pre, q)

\* create walked through the table "a", whose other entry is still there
C16_Witness ==
    /\ op = "create" /\ res = Ok
    /\ key = <<"a", ".", "a", ".", "0">>
    /\ data # pre
    /\ get(pre, <<"a", ".", "0">>) = Some(Integer(1))
    /\ get(data, <<"a", ".", "0">>) = Some(Integer(1))

(***************************************************************************)
(* C17: a set or delete that returns an error leaves the tree as it was.   *)
(***************************************************************************)
C17_FailedSetDeleteAtomic ==
    (op \in {"set", "delete"} /\ res # Ok) => data = pre

\* set refused for a second segment missing from an existing table
C17_Witness ==
    /\ op = "set"
    /\ Len(Parts) = 3
    /\ get(pre, Prefix(1)).some
    /\ IsTable(get(pre, Prefix(1)).v)
    /\ ~get(pre, Prefix(2)).some
    /\ res = PathNotFound
    /\ data = pre

(***************************************************************************)
(* C18: the root is a Table after load and after every call, and no call   *)
(* returns "Parent is not a table" or "Cannot create nested key in         *)
(* non-table".                                                             *)
(***************************************************************************)
C18_RootStaysTable ==
    /\ IsTable(data)
    /\ IsTable(pre)
    /\ res \notin {ParentNotTable, CreateInNonTable}

\* set with the empty key wrote an entry into the root, not over it
C18_Witness ==
    /\ op = "set" /\ res = Ok
    /\ key = <<>>
    /\ IsTable(data)
    /\ data = Table(MapInsert(pre.entries, <<>>, IntoValue(arg)))
    /\ data # pre

====
